---- MODULE Spec2Model ----
(***************************************************************************)
(* A model of src/main.c: the FASTA reader (read_fasta, seek_char,         *)
(* parse_header), the homopolymer scanner (scan_seq1), the tandem-repeat   *)
(* scanner (scan_seqN, next_n, print_entryN, the ring buffer and the       *)
(* invalid_repeat validators) and the record printer (print_entry).        *)
(*                                                                         *)
(* The input stream is drawn one fgetc at a time; seg records the symbols  *)
(* of the current segment as they are consumed, so that what was printed   *)
(* can be compared with what was read.                                     *)
(***************************************************************************)
EXTENDS Integers, Sequences, FiniteSets, TLC

(***************************************************************************)
(* Bounds of the model                                                     *)
(***************************************************************************)
\* characters of the file outside its header labels (free choice of each)
MaxChars == 7
\* len - rep ranges over 1..MaxGap in the valid configurations
MaxGap == 1
\* newline characters inside one segment
MaxNL == 1
\* symbols of a segment that is one single run from its first symbol on
\* (in a file with nothing else after its first header, such a segment may go
\* on past MaxChars, by the symbol that extends the run)
MaxLong == 258
\* symbols that may follow such a run once it has one of the lengths TailAt
MaxTail == 2

(***************************************************************************)
(* Characters                                                              *)
(***************************************************************************)
HEADER_PREFIX == ">"
EOF == "EOF"
NL == "\n"
Bases == {"A", "C"}
\* what an uninitialised char of malloc'd or stack memory may hold
Garbage == {"A", "N"}
\* fscanf(fp, "%31s", chr) keeps at most 31 characters of the label
LABEL_WIDTH == 31
\* a label one character longer than that
LongLabel == [i \in 1 .. (LABEL_WIDTH + 1) |-> "z"]
\* the labels of the header lines of the input files: the k-th header's
Labels(k) == IF k = 1 THEN {<<"x">>} ELSE {<<"y">>, LongLabel}
\* characters before the first header of the file
JunkLens == {0, 1}
\* requested periods and thresholds (atoi of argv[1], argv[2])
Periods == -1 .. 5
Thresholds(r) == (r - 1) .. (r + MaxGap)

VARIABLES
  rep,        \* read_fasta's rep
  len,        \* read_fasta's len
  fp_null,    \* fopen returned NULL
  pc,         \* position in read_fasta
  nread,      \* characters consumed from the stream
  eof,        \* the stream has returned EOF
  used,       \* characters consumed outside header labels
  nls,        \* newlines consumed in the current segment
  chr,        \* read_fasta's chr[32], as the string it holds
  last_bases, \* st->last_bases->elements
  p,          \* the scanner's p
  n,          \* the scanner's n
  last_base,  \* scan_seq1's last_base[0]
  seg,        \* symbols of the current segment consumed so far (no newlines)
  segNo,      \* number of header lines parsed
  out,        \* records printed on stdout, in order
  summary,    \* summary lines printed on stdout
  err,        \* message of the fatal error, "" when none
  c,          \* the scanner's c: what its last fgetc returned
  marker,     \* what seek_char(fp, HEADER_PREFIX) returned, "" before the call
  label,      \* the label of the last header line, as the file has it
  reused,     \* an earlier scan has written st->last_bases->elements
  fresh,      \* slots of the ring written since the last N or segment start
  stale_used, \* a slot outside fresh was validated, compared with or printed
  calls,      \* calls of the record emitter made by the current scan
  validations \* calls of st->invalid_repeat made by the current scan

vars == <<rep, len, fp_null, pc, nread, eof, used, nls, chr, last_bases, p, n,
          last_base, seg, segNo, out, summary, err, c, marker, label, reused,
          fresh, stale_used, calls, validations>>

config == <<rep, len, fp_null>>
stream == <<nread, eof, used, nls>>
scanst == <<last_bases, p, n, last_base>>
\* what the scanners note of their own steps
steps == <<c, reused, fresh, stale_used, calls, validations>>

(***************************************************************************)
(* print_entry: the run length arrives as a char.  Whether char is signed  *)
(* is the implementation's choice, so both conversions are outcomes.       *)
(***************************************************************************)
CHAR_MOD == 256
CHAR_HALF == 128

IntToChar(i) == {((i + CHAR_HALF) % CHAR_MOD) - CHAR_HALF, i % CHAR_MOD}

\* the lines the call may print: chr, p - n, p and unit; seg and n note the
\* segment being scanned and the run length that was passed
print_entry(name, pp, nn, unit) ==
  {[chr |-> name, start |-> pp - nc, end |-> pp, unit |-> unit,
    seg |-> segNo, n |-> nn] : nc \in IntToChar(nn)}

(***************************************************************************)
(* Ring buffer                                                             *)
(***************************************************************************)
init_ring(size) == [0 .. (size - 1) -> Garbage]

\* a write that lands one slot further
write_ring_next(ring, i, ch) == [ring EXCEPT ![(i + 1) % rep] = ch]

write_ring(ring, i, ch) == [ring EXCEPT ![i % rep] = ch]

read_ring(ring, i) == ring[i % rep]

(***************************************************************************)
(* Validators                                                              *)
(***************************************************************************)
invalid_repeat2(lb) == IF lb[0] = lb[1] THEN 1 ELSE 0

invalid_repeat3(lb) == IF lb[0] = lb[1] /\ lb[1] = lb[2] THEN 1 ELSE 0

\* a validator that compares neighbours instead of the two halves
invalid_repeat4_neighbours(lb) == IF lb[0] = lb[1] /\ lb[2] = lb[3] THEN 1 ELSE 0

invalid_repeat4(lb) == IF lb[0] = lb[2] /\ lb[1] = lb[3] THEN 1 ELSE 0

invalid_repeat(lb) ==
  IF rep = 2 THEN invalid_repeat2(lb)
  ELSE IF rep = 3 THEN invalid_repeat3(lb)
  ELSE invalid_repeat4(lb)

\* the slots the validator reads: && does not evaluate its right side when
\* its left side is false
inspected(lb) ==
  IF rep = 2 THEN {0, 1}
  ELSE IF rep = 3 THEN {0, 1} \cup (IF lb[0] = lb[1] THEN {2} ELSE {})
  ELSE {0, 2} \cup (IF lb[0] = lb[2] THEN {1, 3} ELSE {})

(***************************************************************************)
(* print_entryN: the values out may take after the call                    *)
(***************************************************************************)
\* a unit copied from slot 0 on, whatever the start of the run
unit_buffer_unrotated(ring, pp, nn) == [j \in 1 .. rep |-> read_ring(ring, j - 1)]

unit_buffer(ring, pp, nn) ==
  LET o == (pp - nn) % rep
  IN [j \in 1 .. rep |-> read_ring(ring, (j - 1) + o)]

\* gates that are off by one, either way
print_gateN_early(nn) == nn >= len - 1

print_gateN_late(nn) == nn > len

print_gateN(nn) == nn >= len

print_entryN(ring, pp, nn) ==
  IF print_gateN(nn)
  THEN {Append(out, line) :
          line \in print_entry(chr, pp, nn, unit_buffer(ring, pp, nn))}
  ELSE {out}

next_n(ring, pp, ch) ==
  LET w == write_ring(ring, pp, ch)
  IN [ring |-> w, n |-> rep - invalid_repeat(w)]

\* a position that is never advanced
p_stuck(pp) == pp

\* p++ at the end of a turn of either scanner's loop
p_incr(pp) == pp + 1

(***************************************************************************)
(* The stream                                                              *)
(***************************************************************************)
\* a unit of 2, 3 or 4 symbols that repeats a shorter one
Degenerate(u) ==
  IF Len(u) = 2 THEN u[1] = u[2]
  ELSE IF Len(u) = 3 THEN u[1] = u[2] /\ u[2] = u[3]
  ELSE u[1] = u[3] /\ u[2] = u[4]

\* s is one run of period r from its first symbol on
OneRun(s, r) ==
  /\ Len(s) >= r
  /\ \A i \in 1 .. Len(s) : s[i] \in Bases
  /\ \A i \in (r + 1) .. Len(s) : s[i] = s[i - r]
  /\ r = 1 \/ ~Degenerate(SubSeq(s, 1, r))

\* the run lengths at which the conversion to char changes: 128, 256, 257
TailAt == {CHAR_HALF, CHAR_MOD, CHAR_MOD + 1}

\* s is a run of one of the lengths TailAt and fewer than MaxTail symbols more
InTail(s, r) ==
  \E L \in TailAt :
    /\ L <= Len(s)
    /\ Len(s) - L < MaxTail
    /\ OneRun(SubSeq(s, 1, L), r)

\* what fgetc may return to a scanner
ScanChars ==
  IF used < MaxChars
  THEN Bases \cup {"N", HEADER_PREFIX, EOF} \cup (IF nls < MaxNL THEN {NL} ELSE {})
  ELSE IF segNo = 1 /\ used = Len(seg) + 1 /\ rep \in 1 .. 4
       THEN {EOF}
            \cup (IF Len(seg) < MaxLong /\ OneRun(seg, rep)
                  THEN {seg[Len(seg) - rep + 1]} ELSE {})
            \cup (IF InTail(seg, rep) THEN Bases \cup {"N"} ELSE {})
       ELSE {EOF}

fgetc(ch) ==
  /\ nread' = IF ch = EOF THEN nread ELSE nread + 1
  /\ eof' = (ch = EOF)
  /\ used' = IF ch = EOF THEN used ELSE used + 1
  /\ nls' = IF ch = NL THEN nls + 1 ELSE nls

(***************************************************************************)
(* main and read_fasta                                                     *)
(***************************************************************************)
Init ==
  /\ rep \in Periods
  /\ len \in Thresholds(rep)
  /\ fp_null \in BOOLEAN
  /\ pc = "check"
  /\ nread = 0
  /\ eof = FALSE
  /\ used = 0
  /\ nls = 0
  /\ chr \in {<<g>> : g \in Garbage}
  /\ last_bases = <<>>
  /\ p = 0
  /\ n = 0
  /\ last_base = "N"
  /\ seg = <<>>
  /\ segNo = 0
  /\ out = <<>>
  /\ summary = <<>>
  /\ err = ""
  /\ c = ""
  /\ marker = ""
  /\ label = <<>>
  /\ reused = FALSE
  /\ fresh = {}
  /\ stale_used = FALSE
  /\ calls = 0
  /\ validations = 0

\* read_fasta's checks of its arguments
CheckArgs ==
  /\ pc = "check"
  /\ IF len <= rep
     THEN pc' = "exit" /\ err' = "Repeat length must be less than total length"
     ELSE IF 4 < rep
     THEN pc' = "exit" /\ err' = "Repeat length must be in [1,4]"
     ELSE IF fp_null
     THEN pc' = "exit" /\ err' = "Error in opening file"
     ELSE pc' = "seek" /\ err' = err
  /\ UNCHANGED <<config, stream, chr, scanst, seg, segNo, out, summary,
                 marker, label, steps>>

\* seek_char(fp, HEADER_PREFIX): skip to the first header
SeekHeader ==
  /\ pc = "seek"
  /\ \E j \in JunkLens, t \in {HEADER_PREFIX, EOF} :
       /\ nread' = nread + j + (IF t = EOF THEN 0 ELSE 1)
       /\ used' = used + j + (IF t = EOF THEN 0 ELSE 1)
       /\ eof' = (t = EOF)
       /\ marker' = t
  /\ pc' = "init"
  /\ UNCHANGED <<config, nls, chr, scanst, seg, segNo, out, summary, err,
                 label, steps>>

\* init_seq_state when rep # 1, then the two summary lines
InitState ==
  /\ pc = "init"
  /\ IF rep = 1
     THEN /\ last_bases' = last_bases
          /\ summary' = <<<<"#repeat_length", rep>>, <<"#total_length", len>>>>
          /\ pc' = "header"
          /\ err' = err
     ELSE IF rep \in 2 .. 4
     THEN /\ last_bases' \in init_ring(rep)
          /\ summary' = <<<<"#repeat_length", rep>>, <<"#total_length", len>>>>
          /\ pc' = "header"
          /\ err' = err
     ELSE /\ last_bases' = last_bases
          /\ summary' = summary
          \* rep < 0: unit_buffer[rep] is written out of bounds before the exit
          /\ pc' \in (IF rep < 0 THEN {"exit", "crash"} ELSE {"exit"})
          /\ err' = IF pc' = "crash" THEN err
                    ELSE "invalid r (this should never happen)"
  /\ UNCHANGED <<config, stream, chr, p, n, last_base, seg, segNo, out,
                 marker, label, steps>>

Take(s, k) == IF Len(s) <= k THEN s ELSE SubSeq(s, 1, k)

\* a label buffer that only the first header line fills
fscanf_s_once(buf, tok) ==
  IF tok = <<>> \/ segNo > 0 THEN buf ELSE Take(tok, LABEL_WIDTH)

\* what fscanf(fp, "%31s", chr) leaves in chr: the token cut to LABEL_WIDTH
\* characters, or chr as it was when the file ends before any token
fscanf_s(buf, tok) == IF tok = <<>> THEN buf ELSE Take(tok, LABEL_WIDTH)

\* a position that goes on from the previous segment's
p_entry_kept(prev) == prev

\* int p = 0 at the entry of either scanner
p_entry(prev) == 0

\* one turn of the while loop: parse_header, then the entry of the scanner or,
\* when parse_header returns EOF, the end of read_fasta (free_seq_state,
\* return 0).  The header line is a label followed by a newline or by the end
\* of the file; parse_header returns what seek_char(fp, '\n') found.
ParseHeader ==
  /\ pc = "header"
  /\ \E tok \in Labels(segNo + 1) \cup {<<>>}, t \in {NL, EOF} :
       /\ eof => (tok = <<>> /\ t = EOF)
       /\ (tok = <<>>) => (t = EOF)
       /\ LET fscanf == IF tok = <<>> THEN EOF ELSE "1"
          IN IF fscanf # "1" /\ fscanf # EOF
             THEN /\ pc' = "exit"
                  /\ err' = "Error when parsing chromosome header"
                  /\ UNCHANGED <<stream, chr, scanst, seg, segNo, label, steps>>
             ELSE /\ err' = err
                  /\ chr' = fscanf_s(chr, tok)
                  /\ nread' = nread + Len(tok) + (IF t = EOF THEN 0 ELSE 1)
                  /\ eof' = (t = EOF)
                  /\ used' = used
                  /\ IF t = EOF
                     THEN /\ pc' = "done"
                          /\ UNCHANGED <<nls, scanst, seg, segNo, label, steps>>
                     ELSE /\ pc' = IF rep = 1 THEN "scan1" ELSE "scanN"
                          /\ p' = p_entry(p)
                          /\ n' = IF rep = 1 THEN 1 ELSE 0
                          /\ last_base' = "N"
                          /\ last_bases' = last_bases
                          /\ seg' = <<>>
                          /\ segNo' = segNo + 1
                          /\ nls' = 0
                          /\ label' = tok
                          /\ c' = ""
                          /\ reused' = (\/ reused
                                         \/ (rep # 1 /\ \E i \in 1 .. Len(seg) : seg[i] # "N"))
                          /\ fresh' = {}
                          /\ calls' = 0
                          /\ validations' = 0
                          /\ stale_used' = stale_used
  /\ UNCHANGED <<config, out, summary, marker>>

\* a newline that is scanned like any other character
ignored_never(ch) == FALSE

\* the test of either scanner that skips a newline
ignored(ch) == ch = NL

\* a scan that a sequence break ends too
is_end_or_break(ch) == ch = EOF \/ ch = HEADER_PREFIX \/ ch = "N"

\* the test of either scanner for the end of the segment
is_end(ch) == ch = EOF \/ ch = HEADER_PREFIX

\* a fill phase one symbol short
q_short == rep - 2

\* scan_seqN's q
q == rep - 1

\* a comparison that never finds the expected symbol
matches_never(c0, ch) == FALSE

\* scan_seqN's test c0 == c
matches(c0, ch) == c0 = ch

\* the slots of the ring
Slots == 0 .. (rep - 1)

\* what print_entryN reads of the ring, when it prints
printed_slots(nn) == IF print_gateN(nn) THEN Slots ELSE {}

\* one turn of scan_seqN's loop
scan_seqN ==
  /\ pc = "scanN"
  /\ \E ch \in ScanChars :
       /\ fgetc(ch)
       /\ c' = ch
       /\ IF ignored(ch)
          THEN UNCHANGED <<last_bases, p, n, seg, out, pc, fresh, stale_used,
                           calls, validations>>
          ELSE IF ch = "N"
          THEN /\ out' \in print_entryN(last_bases, p, n)
               /\ calls' = calls + 1
               /\ stale_used' = (stale_used \/ ~(printed_slots(n) \subseteq fresh))
               /\ n' = 0
               /\ fresh' = {}
               /\ p' = p_incr(p)
               /\ seg' = Append(seg, ch)
               /\ UNCHANGED <<last_bases, pc, validations>>
          ELSE IF is_end(ch)
          THEN /\ out' \in print_entryN(last_bases, p, n)
               /\ calls' = calls + 1
               /\ stale_used' = (stale_used \/ ~(printed_slots(n) \subseteq fresh))
               /\ pc' = "header"
               /\ UNCHANGED <<last_bases, p, n, seg, fresh, validations>>
          ELSE /\ p' = p_incr(p)
               /\ seg' = Append(seg, ch)
               /\ pc' = pc
               /\ IF n < q
                  THEN /\ last_bases' = write_ring(last_bases, p, ch)
                       /\ fresh' = fresh \cup {p % rep}
                       /\ n' = n + 1
                       /\ UNCHANGED <<out, stale_used, calls, validations>>
                  ELSE IF n > q
                  THEN IF matches(read_ring(last_bases, p), ch)
                       THEN /\ n' = n + 1
                            /\ stale_used' = (stale_used \/ (p % rep) \notin fresh)
                            /\ UNCHANGED <<last_bases, out, fresh, calls,
                                           validations>>
                       ELSE /\ out' \in print_entryN(last_bases, p, n)
                            /\ calls' = calls + 1
                            /\ last_bases' = next_n(last_bases, p, ch).ring
                            /\ n' = next_n(last_bases, p, ch).n
                            /\ validations' = validations + 1
                            /\ fresh' = fresh \cup {p % rep}
                            /\ stale_used' =
                                 (\/ stale_used
                                  \/ (p % rep) \notin fresh
                                  \/ ~(printed_slots(n) \subseteq fresh)
                                  \/ ~(inspected(last_bases') \subseteq fresh'))
                  ELSE /\ last_bases' = next_n(last_bases, p, ch).ring
                       /\ n' = next_n(last_bases, p, ch).n
                       /\ validations' = validations + 1
                       /\ fresh' = fresh \cup {p % rep}
                       /\ stale_used' =
                            (stale_used \/ ~(inspected(last_bases') \subseteq fresh'))
                       /\ UNCHANGED <<out, calls>>
  /\ UNCHANGED <<config, chr, last_base, segNo, summary, err, marker, label,
                 reused>>

\* a test that lets a run of N through
print_gate1_anysymbol(nn, lb) == nn >= len

\* scan_seq1's test before print_entry
print_gate1(nn, lb) == nn >= len /\ lb # "N"

\* one turn of scan_seq1's loop
scan_seq1 ==
  /\ pc = "scan1"
  /\ \E ch \in ScanChars :
       /\ fgetc(ch)
       /\ c' = ch
       /\ IF ignored(ch)
          THEN UNCHANGED <<p, n, last_base, seg, out, pc, calls>>
          ELSE IF ch = last_base
          THEN /\ n' = n + 1
               /\ p' = p_incr(p)
               /\ seg' = Append(seg, ch)
               /\ UNCHANGED <<last_base, out, pc, calls>>
          ELSE /\ IF print_gate1(n, last_base)
                  THEN /\ out' \in {Append(out, line) :
                                      line \in print_entry(chr, p, n, <<last_base>>)}
                       /\ calls' = calls + 1
                  ELSE UNCHANGED <<out, calls>>
               /\ IF is_end(ch)
                  THEN /\ pc' = "header"
                       /\ UNCHANGED <<p, n, last_base, seg>>
                  ELSE /\ n' = 1
                       /\ last_base' = ch
                       /\ p' = p_incr(p)
                       /\ seg' = Append(seg, ch)
                       /\ pc' = pc
  /\ UNCHANGED <<config, chr, last_bases, segNo, summary, err, marker, label,
                 reused, fresh, stale_used, validations>>

Next ==
  \/ CheckArgs
  \/ SeekHeader
  \/ InitState
  \/ ParseHeader
  \/ scan_seqN
  \/ scan_seq1

Spec == Init /\ [][Next]_vars

\* The program is one sequential process that runs until it returns or
\* exits: a step that can be taken is taken.
LiveSpec == Init /\ [][Next]_vars /\ WF_vars(Next)

(***************************************************************************)
(* What the records are compared with: the runs of a segment, defined on   *)
(* its symbols alone.  Position i of a segment s is s[i + 1].              *)
(***************************************************************************)
\* the scan of segment segNo has just returned, and seg is the whole segment
SegDone == pc = "header" /\ segNo >= 1

\* indices in out of the records of segment k
RecsOf(k) == {i \in 1 .. Len(out) : out[i].seg = k}

\* where a run of period r can begin and end: the run cannot be extended
RunStarts(s, r) ==
  {a \in 0 .. (Len(s) - r) : a = 0 \/ s[a] = "N" \/ s[a] # s[a + r]}

RunEnds(s, r) ==
  {e \in r .. Len(s) : e = Len(s) \/ s[e + 1] = "N" \/ s[e + 1] # s[e + 1 - r]}

\* the maximal runs [a, e) of period r with a non-degenerate unit
MaxRunsN(s, r) ==
  {x \in RunStarts(s, r) \X RunEnds(s, r) :
     /\ x[1] + r <= x[2]
     /\ \A i \in x[1] .. (x[2] - 1) : s[i + 1] # "N"
     /\ \A i \in (x[1] + r) .. (x[2] - 1) : s[i + 1] = s[i + 1 - r]
     /\ ~Degenerate(SubSeq(s, x[1] + 1, x[1] + r))}

\* the maximal runs [a, e) of one symbol other than N
MaxRuns1(s) ==
  {x \in RunStarts(s, 1) \X RunEnds(s, 1) :
     /\ x[1] < x[2]
     /\ \A i \in x[1] .. (x[2] - 1) : s[i + 1] # "N" /\ s[i + 1] = s[x[1] + 1]}

\* those that reach the threshold
RefRunsN(s) == {x \in MaxRunsN(s, rep) : x[2] - x[1] >= len}

RefRuns1(s) == {x \in MaxRuns1(s) : x[2] - x[1] >= len}

\* The scanners find exactly the runs that reach the threshold, each once,
\* when a record's start is taken as its end less the scanner's run counter.
RunsFound ==
  (SegDone /\ rep \in 1 .. 4) =>
    /\ {<<out[i].end - out[i].n, out[i].end>> : i \in RecsOf(segNo)}
         = (IF rep = 1 THEN RefRuns1(seg) ELSE RefRunsN(seg))
    /\ Cardinality(RecsOf(segNo))
         = Cardinality(IF rep = 1 THEN RefRuns1(seg) ELSE RefRunsN(seg))

(***************************************************************************)
(* C1: with period 2, 3 or 4, the records of a segment are exactly its     *)
(* maximal runs of that period with a non-degenerate unit and a length of  *)
(* at least the threshold, each reported once with its start and its end.  *)
(***************************************************************************)
C1_RecordsAreTheMaximalRuns ==
  (SegDone /\ rep \in 2 .. 4) =>
    /\ {<<out[i].start, out[i].end>> : i \in RecsOf(segNo)} = RefRunsN(seg)
    /\ Cardinality(RecsOf(segNo)) = Cardinality(RefRunsN(seg))

(***************************************************************************)
(* C2: with period 1, every symbol of the segment in a record's            *)
(* [start, end) is the record's unit, which is not N, and the symbols      *)
(* before start and at end, where the segment has them, differ from it.    *)
(***************************************************************************)
C2_HomopolymerRecordsAreMaximal ==
  (SegDone /\ rep = 1) =>
    \A i \in RecsOf(segNo) :
      LET r == out[i]
          u == r.unit[1]
          InSeg(k) == k \in 0 .. (Len(seg) - 1)
      IN /\ u # "N"
         /\ \A k \in r.start .. (r.end - 1) : InSeg(k) => seg[k + 1] = u
         /\ InSeg(r.start - 1) => seg[r.start] # u
         /\ InSeg(r.end) => seg[r.end + 1] # u

(***************************************************************************)
(* C3: every record's printed start is its end less the run length the     *)
(* scanner had counted when it emitted the record.                         *)
(***************************************************************************)
C3_StartIsEndLessRunLength ==
  \A i \in 1 .. Len(out) : out[i].start = out[i].end - out[i].n

(***************************************************************************)
(* C4: with period 2, 3 or 4, every record's run length is at least the    *)
(* threshold and at least the period.                                      *)
(***************************************************************************)
C4_EmittedRunsReachThreshold ==
  rep \in 2 .. 4 =>
    \A i \in 1 .. Len(out) : out[i].n >= len /\ out[i].n >= rep

\* a segment with a record and with a maximal run below the threshold
C4_Witness ==
  /\ rep \in 2 .. 4
  /\ SegDone
  /\ RecsOf(segNo) # {}
  /\ \E x \in MaxRunsN(seg, rep) : x[2] - x[1] < len

(***************************************************************************)
(* C5: for both scanners, a maximal run of threshold - 1 symbols leaves no *)
(* record and a maximal run of exactly threshold symbols leaves exactly    *)
(* one, also when the end of the segment closes it.                        *)
(***************************************************************************)
MaxRuns(s) == IF rep = 1 THEN MaxRuns1(s) ELSE MaxRunsN(s, rep)

C5_ThresholdBoundary ==
  (SegDone /\ rep \in 1 .. 4) =>
    \A x \in MaxRuns(seg) :
      LET at == {i \in RecsOf(segNo) : out[i].end = x[2]}
      IN /\ (x[2] - x[1] = len - 1) => at = {}
         /\ (x[2] - x[1] = len) =>
              /\ Cardinality(at) = 1
              /\ \A i \in at : out[i].n = len

\* a run of threshold - 1 symbols, then a run of threshold symbols that the
\* end of the segment closes
C5_Witness ==
  /\ rep \in 2 .. 4
  /\ SegDone
  /\ \E x \in MaxRuns(seg) : x[2] - x[1] = len - 1
  /\ \E x \in MaxRuns(seg) : x[2] - x[1] = len /\ x[2] = Len(seg)
  /\ Cardinality(RecsOf(segNo)) = 1

(***************************************************************************)
(* C6: with period 2, 3 or 4, no record's unit is degenerate, and a        *)
(* segment whose every window of period symbols is degenerate leaves no    *)
(* record.                                                                 *)
(***************************************************************************)
AllWindowsDegenerate(s) ==
  \A a \in 0 .. (Len(s) - rep) : Degenerate(SubSeq(s, a + 1, a + rep))

C6_UnitsAreNotDegenerate ==
  rep \in 2 .. 4 =>
    /\ \A i \in 1 .. Len(out) : ~Degenerate(out[i].unit)
    /\ (SegDone /\ AllWindowsDegenerate(seg)) => RecsOf(segNo) = {}

\* a record whose run begins one symbol after a window, free of N, that the
\* validator rejected
C6_Witness ==
  /\ rep \in 2 .. 4
  /\ SegDone
  /\ \E i \in RecsOf(segNo) :
       LET a == out[i].end - out[i].n
       IN /\ a >= 1
          /\ \A k \in a .. (a + rep - 1) : seg[k] # "N"
          /\ Degenerate(SubSeq(seg, a, a + rep - 1))

(***************************************************************************)
(* C7: with period 2, 3 or 4, a record's unit is the first period symbols  *)
(* of its run, in the order of the segment; the run begins run length      *)
(* symbols before the record's end.                                        *)
(***************************************************************************)
C7_UnitIsTheHeadOfTheRun ==
  rep \in 2 .. 4 =>
    \A i \in RecsOf(segNo) :
      LET a == out[i].end - out[i].n
      IN a >= 0 /\ out[i].unit = SubSeq(seg, a + 1, a + rep)

\* a record whose run does not begin at a multiple of the period
C7_Witness ==
  /\ rep \in 2 .. 4
  /\ \E i \in RecsOf(segNo) : (out[i].end - out[i].n) % rep # 0

(***************************************************************************)
(* C8: N is in no record: not in a unit, not at a position of the segment  *)
(* inside a record's [start, end); a segment of N alone leaves no record.  *)
(***************************************************************************)
C8_NoNInRecords ==
  rep \in 1 .. 4 =>
    /\ \A i \in 1 .. Len(out) :
         \A j \in 1 .. Len(out[i].unit) : out[i].unit[j] # "N"
    /\ \A i \in RecsOf(segNo) :
         \A k \in out[i].start .. (out[i].end - 1) :
           k \in 0 .. (Len(seg) - 1) => seg[k + 1] # "N"
    /\ (SegDone /\ \A k \in 1 .. Len(seg) : seg[k] = "N") => RecsOf(segNo) = {}

\* a record whose run an N closes, in a segment that an N also begins
C8_Witness ==
  /\ Len(seg) >= 1
  /\ seg[1] = "N"
  /\ \E i \in RecsOf(segNo) :
       /\ out[i].end < Len(seg)
       /\ seg[out[i].end + 1] = "N"
       /\ out[i].start < out[i].end

(***************************************************************************)
(* C9: records come out segment after segment, and within a segment by     *)
(* strictly increasing end.                                                *)
(***************************************************************************)
C9_RecordsInOrder ==
  \A i, j \in 1 .. Len(out) :
    i < j =>
      /\ out[i].seg <= out[j].seg
      /\ (out[i].seg = out[j].seg) => out[i].end < out[j].end

\* two records of the first segment, out before the scan of the second
C9_Witness ==
  /\ segNo = 2
  /\ \E i, j \in RecsOf(1) : i < j

(***************************************************************************)
(* C10: with a period outside 1..4, or a threshold not above the period,   *)
(* the program never completes, consumes no character of the stream and    *)
(* writes no summary line and no record.                                   *)
(***************************************************************************)
BadConfig == rep \notin 1 .. 4 \/ len <= rep

C10_BadConfigFailsBeforeInput ==
  BadConfig =>
    /\ pc # "done"
    /\ nread = 0
    /\ summary = <<>>
    /\ out = <<>>

\* What holds of the configurations read_fasta itself rejects: a period
\* above 4 or a threshold not above the period.
RejectedBeforeInput ==
  (4 < rep \/ len <= rep) =>
    /\ pc \in {"check", "exit"}
    /\ nread = 0
    /\ summary = <<>>
    /\ out = <<>>

(***************************************************************************)
(* C11: a header line whose label is longer than LABEL_WIDTH characters    *)
(* stops the program with a fatal error when it is parsed: the segment is  *)
(* not scanned and leaves no record.                                       *)
(***************************************************************************)
ValidConfig == rep \in 1 .. 4 /\ len > rep /\ ~fp_null

C11_LongLabelIsFatal ==
  (segNo >= 1 /\ Len(label) > LABEL_WIDTH) =>
    /\ pc = "exit"
    /\ err # ""
    /\ RecsOf(segNo) = {}

\* What the code does with such a label: it keeps its first LABEL_WIDTH
\* characters and scans the segment.
LongLabelIsCut ==
  (segNo >= 1 /\ Len(label) > LABEL_WIDTH) =>
    /\ pc \in {"scanN", "scan1", "header", "done"}
    /\ chr = SubSeq(label, 1, LABEL_WIDTH)
    /\ err = ""

(***************************************************************************)
(* C12: with a valid configuration, a stream in which seek_char finds no   *)
(* header marker (an empty file, or one without '>') is a fatal error: the *)
(* program does not complete normally.                                     *)
(***************************************************************************)
C12_EmptyStreamIsFatal ==
  (ValidConfig /\ marker = EOF) => pc # "done"

\* What the code does then: it writes the two summary lines and returns
\* without a record and without an error message.
EmptyStreamCompletes ==
  (ValidConfig /\ marker = EOF) =>
    /\ pc \in {"init", "header", "done"}
    /\ pc # "init" => Len(summary) = 2
    /\ out = <<>>
    /\ err = ""
    /\ segNo = 0

(***************************************************************************)
(* C13: the records of a segment are a function of the configuration, the  *)
(* segment's label and the segment's symbols alone, with positions counted *)
(* from 0 at its first symbol: whatever the ring held when the scan began  *)
(* (malloc's bytes, or what the scan of an earlier segment left), the      *)
(* records are those of RefRecords, in the order of their ends.            *)
(***************************************************************************)
\* label, end, run length and unit of the records a segment s with label l
\* must leave
RefRecords(l, s) ==
  IF rep = 1
  THEN {<<Take(l, LABEL_WIDTH), x[2], x[2] - x[1], <<s[x[1] + 1]>> >> :
          x \in RefRuns1(s)}
  ELSE {<<Take(l, LABEL_WIDTH), x[2], x[2] - x[1],
          SubSeq(s, x[1] + 1, x[1] + rep)>> : x \in RefRunsN(s)}

C13_RecordsDependOnSegmentOnly ==
  (SegDone /\ rep \in 1 .. 4) =>
    /\ {<<out[i].chr, out[i].end, out[i].n, out[i].unit>> : i \in RecsOf(segNo)}
         = RefRecords(label, seg)
    /\ Cardinality(RecsOf(segNo)) = Cardinality(RefRecords(label, seg))
    /\ \A i, j \in RecsOf(segNo) : i < j => out[i].end < out[j].end
    /\ \A i \in RecsOf(segNo) :
         out[i].start \in {out[i].end - nc : nc \in IntToChar(out[i].n)}

\* a segment with a record, scanned with a ring that the scan of an earlier
\* segment had written
C13_Witness ==
  /\ rep \in 2 .. 4
  /\ SegDone
  /\ segNo >= 2
  /\ reused
  /\ RecsOf(segNo) # {}

(***************************************************************************)
(* C14: between two turns of scan_seqN's loop, and when it has returned,   *)
(* 0 <= n <= p (so n <= p + rep, and p - n is not negative), and when      *)
(* n >= rep the ring holds the last rep symbols of the segment, slot       *)
(* i mod rep holding the symbol at position i, none of them N.             *)
(***************************************************************************)
BetweenTurns == rep \in 2 .. 4 /\ segNo >= 1 /\ pc \in {"scanN", "header"}

C14_RunLengthAndRing ==
  BetweenTurns =>
    /\ p = Len(seg)
    /\ 0 <= n
    /\ n <= p
    /\ n <= p + rep
    /\ \A i \in RecsOf(segNo) : out[i].start >= 0
    /\ n >= rep =>
         \A i \in (p - rep) .. (p - 1) :
           /\ read_ring(last_bases, i) = seg[i + 1]
           /\ seg[i + 1] # "N"

\* a run that an N precedes and that the comparison phase has extended
C14_Witness ==
  /\ rep \in 2 .. 4
  /\ pc = "scanN"
  /\ n > rep
  /\ n < p
  /\ \E i \in 1 .. Len(seg) : seg[i] = "N"

(***************************************************************************)
(* C15: every slot of the ring that the validator reads, that the          *)
(* comparison phase compares with, or that is copied into a printed unit   *)
(* was written by a symbol that came after the last N and after the start  *)
(* of the segment.                                                         *)
(***************************************************************************)
C15_StaleSlotsAreNeverUsed ==
  rep \in 2 .. 4 => ~stale_used

\* a record of a run that follows an N, from a ring that the scan of an
\* earlier segment had written
C15_Witness ==
  /\ rep \in 2 .. 4
  /\ reused
  /\ \E i \in RecsOf(segNo) :
       \E k \in 1 .. (out[i].end - out[i].n) : seg[k] = "N"

(***************************************************************************)
(* C16: every scan of a segment returns, and a scan returns only in the    *)
(* turn that reads the end of the file or the next header marker, after   *)
(* handing the run in progress to the emitter; the turn that reads N does  *)
(* not end the scan: it hands the run to the emitter and starts over.      *)
(***************************************************************************)
Scanning == pc \in {"scanN", "scan1"}

\* the record the emitter prints for the run in progress, when it reaches
\* the threshold
RunIsPrinted ==
  /\ Len(out') = Len(out) + 1
  /\ out'[Len(out')].end = p
  /\ out'[Len(out')].n = n
  /\ out'[Len(out')].seg = segNo

\* the turn of scan_seqN that hands the run in progress to print_entryN
HandsRunN ==
  /\ calls' = calls + 1
  /\ IF n >= len THEN RunIsPrinted ELSE out' = out

\* the turn of scan_seq1 that prints the run in progress, when there is one
HandsRun1 ==
  IF n >= len /\ last_base # "N"
  THEN calls' = calls + 1 /\ RunIsPrinted
  ELSE calls' = calls /\ out' = out

ScanReturnsAtEnd ==
  (Scanning /\ pc' # pc) =>
    /\ pc' = "header"
    /\ c' \in {EOF, HEADER_PREFIX}
    /\ IF pc = "scanN" THEN HandsRunN ELSE HandsRun1
    /\ seg' = seg

BreakGoesOn ==
  (Scanning /\ c' = "N" /\ nread' = nread + 1) =>
    /\ pc' = pc
    /\ seg' = Append(seg, "N")
    /\ pc = "scanN" => (HandsRunN /\ n' = 0)
    /\ (pc = "scan1" /\ last_base # "N") =>
         (HandsRun1 /\ n' = 1 /\ last_base' = "N")

EndIsTerminal ==
  (Scanning /\ nread' # nread /\ c' = HEADER_PREFIX) => pc' = "header"

C16_ScanEndsOnlyAtEnd ==
  /\ [][ScanReturnsAtEnd /\ BreakGoesOn /\ EndIsTerminal]_vars
  /\ Scanning ~> (pc = "header")

\* a scan that went on after an N and whose last turn printed the run that
\* the end of the file closed
C16_Witness ==
  /\ SegDone
  /\ c = EOF
  /\ \E k \in 1 .. Len(seg) : seg[k] = "N"
  /\ \E i \in RecsOf(segNo) : out[i].end = Len(seg) /\ i = Len(out)

(***************************************************************************)
(* C17: a turn of either scanner's loop calls the record emitter at most   *)
(* once and prints at most one record; it calls it not at all when the     *)
(* character read is a newline, a symbol that extends the run, or, in      *)
(* scan_seqN, a symbol of the fill phase or of the boundary step.          *)
(***************************************************************************)
\* the turn read a character other than a newline, N and the end markers
Ordinary == c' \notin {NL, "N", EOF, HEADER_PREFIX}

NoCall == calls' = calls /\ out' = out

\* the turn read a symbol that extends the run in progress
Extends ==
  /\ Ordinary
  /\ IF pc = "scanN"
     THEN n > q /\ read_ring(last_bases, p) = c'
     ELSE c' = last_base

OneCallAtMost ==
  Scanning =>
    /\ calls' - calls \in {0, 1}
    /\ Len(out') - Len(out) \in {0, 1}
    /\ Len(out') - Len(out) <= calls' - calls
    /\ SubSeq(out', 1, Len(out)) = out
    /\ c' = NL => NoCall
    /\ Extends => NoCall
    /\ (pc = "scanN" /\ Ordinary /\ n <= q) => NoCall

C17_OneCallPerSymbolAtMost == [][OneCallAtMost]_vars

\* a scan that has read a newline, made a call that printed a record and a
\* call that printed none
C17_Witness ==
  /\ pc = "scanN"
  /\ nls >= 1
  /\ calls = 2
  /\ Cardinality(RecsOf(segNo)) = 1

(***************************************************************************)
(* C18, as stated: scan_seqN runs the validator in the boundary step       *)
(* (n = rep - 1) and in no other turn, once for every candidate unit: not  *)
(* in the fill phase, on N, on an end marker or on a symbol that extends   *)
(* the run, and at the return of the scan the number of its runs is the    *)
(* number of candidate units of the segment.                               *)
(***************************************************************************)
\* positions of s whose symbol extends a run with a non-degenerate unit
ExtendingPositions(s) ==
  UNION {(x[1] + rep) .. (x[2] - 1) : x \in MaxRunsN(s, rep)}

\* positions of s that end a window of rep symbols without N
WindowEnds(s) ==
  {i \in (rep - 1) .. (Len(s) - 1) : \A k \in (i - rep + 1) .. i : s[k + 1] # "N"}

\* the candidate units of s: its windows that do not merely extend a run
CandidateUnits(s) == WindowEnds(s) \ ExtendingPositions(s)

\* the turn ran the validator
Validates == validations' = validations + 1

\* the turns the claim lists: fill phase, N, end marker, extension
ListedTurn ==
  \/ pc = "scan1"
  \/ c' \in {"N", EOF, HEADER_PREFIX, NL}
  \/ n < q
  \/ Extends

ValidatorCount ==
  (SegDone /\ rep \in 2 .. 4) =>
    validations = Cardinality(CandidateUnits(seg))

ValidatesAtBoundaryOnly ==
  Scanning =>
    /\ validations' - validations \in {0, 1}
    /\ Validates => (pc = "scanN" /\ Ordinary /\ n = q)
    /\ ListedTurn => ~Validates

C18_ValidatorAtBoundaryOnly ==
  [][ValidatesAtBoundaryOnly]_vars /\ []ValidatorCount

(***************************************************************************)
(* C18, amended: scan_seqN runs the validator once for every candidate     *)
(* unit and not once for every symbol.  A turn runs it at most once, and   *)
(* runs it exactly when its symbol completes a new window of rep symbols:  *)
(* in the boundary step (n = rep - 1) and in the turn whose symbol breaks  *)
(* the run in progress (n >= rep), which starts over through next_n.  It   *)
(* is not run in the fill phase, on N, on an end marker, on a newline or   *)
(* on a symbol that extends the run, and at the return of the scan the     *)
(* number of its runs is the number of candidate units of the segment.     *)
(***************************************************************************)
\* the turn forms a new candidate unit
FormsUnit ==
  /\ pc = "scanN"
  /\ Ordinary
  /\ n = q \/ (n > q /\ read_ring(last_bases, p) # c')

ValidatorTurns ==
  Scanning =>
    /\ validations' - validations \in {0, 1}
    /\ Validates <=> FormsUnit
    /\ ListedTurn => ~Validates
    /\ FormsUnit => n' \in {rep, rep - 1}

C18_ValidatorOncePerUnit == [][ValidatorTurns]_vars /\ []ValidatorCount

\* a segment with an N, a run that a symbol broke after it was printed, and
\* so a candidate unit formed outside the boundary step
C18_Witness ==
  /\ rep \in 2 .. 4
  /\ SegDone
  /\ validations >= 2
  /\ \E k \in 1 .. Len(seg) : seg[k] = "N"
  /\ \E i \in RecsOf(segNo) :
       /\ out[i].end < Len(seg)
       /\ seg[out[i].end + 1] # "N"

(***************************************************************************)
(* C19: of two consecutive records of one segment, the later one starts    *)
(* at or after the earlier one's end less period - 1 (scan_seqN), or at or *)
(* after the earlier one's end (scan_seq1), and no record's [start, end)   *)
(* lies inside another's.                                                  *)
(***************************************************************************)
\* record i is a run of at least one position inside record j's
Nested(i, j) ==
  /\ out[i].start < out[i].end
  /\ out[j].start <= out[i].start
  /\ out[i].end <= out[j].end

C19_RunsOverlapByLessThanPeriod ==
  rep \in 1 .. 4 =>
    /\ \A i, j \in RecsOf(segNo) :
         j = i + 1 => out[j].start >= out[i].end - (rep - 1)
    /\ \A i, j \in RecsOf(segNo) : i # j => ~Nested(i, j)

\* What holds of the printed starts: the bound on the overlap.
OverlapBound ==
  rep \in 1 .. 4 =>
    \A i, j \in RecsOf(segNo) :
      j = i + 1 => out[j].start >= out[i].end - (rep - 1)

\* What holds of the runs the scanners found, each taken from its end less
\* its run length: the bound on the overlap, and no run inside another.
RunsAreNotNested ==
  rep \in 1 .. 4 =>
    \A i, j \in RecsOf(segNo) :
      /\ j = i + 1 => out[j].end - out[j].n >= out[i].end - (rep - 1)
      /\ i # j => ~(/\ out[j].end - out[j].n <= out[i].end - out[i].n
                    /\ out[i].end <= out[j].end)

(***************************************************************************)
(* C20: every record carries the label that was parsed from the header of  *)
(* the segment its run is in (the first LABEL_WIDTH characters of the      *)
(* header's label), and the last run of a segment is printed with it in    *)
(* the turn that reads the next header marker, before parse_header         *)
(* overwrites chr.                                                         *)
(***************************************************************************)
\* the run that the end of segment s closes, when it reaches the threshold
LastRun(s) ==
  {x \in (IF rep = 1 THEN RefRuns1(s) ELSE RefRunsN(s)) : x[2] = Len(s)}

C20_RecordsCarryTheirSegmentsLabel ==
  rep \in 1 .. 4 =>
    /\ \A i \in RecsOf(segNo) : out[i].chr = Take(label, LABEL_WIDTH)
    /\ (SegDone /\ LastRun(seg) # {}) =>
         /\ Len(out) >= 1
         /\ out[Len(out)].seg = segNo
         /\ out[Len(out)].end = Len(seg)
         /\ out[Len(out)].chr = Take(label, LABEL_WIDTH)

\* two segments with different labels and a record each, the second one's
\* printed in the turn that read the marker of a third header
C20_Witness ==
  /\ segNo = 2
  /\ SegDone
  /\ c = HEADER_PREFIX
  /\ LastRun(seg) # {}
  /\ \E i \in RecsOf(1), j \in RecsOf(2) : out[i].chr # out[j].chr

====
